---- MODULE Spec2Model ----
(***************************************************************************)
(* Echo Forge-AI Integrity: the core verifier (EchoForgeVerifier) and the  *)
(* renderers that consume its outcome list, as a state machine.            *)
(*                                                                         *)
(* A manifest file is modelled by what json.load makes of it: an object    *)
(* (its keys in insertion order and their values), a JSON array, or text   *)
(* that is not JSON; a file may also exist and refuse to be opened.  A     *)
(* digest is the pair <<algorithm, bytes>>, so two digests are equal       *)
(* exactly when algorithm and bytes are; the empty string '' is the empty  *)
(* sequence <<>>.                                                          *)
(***************************************************************************)
EXTENDS Integers, Sequences, FiniteSets, TLC

VARIABLES
    files,                  \* data/cve: manifest file number -> file content
    verification_results,   \* EchoForgeVerifier.verification_results
    results,                \* the outcome list the caller got from the last batch
    disk,                   \* the reports written: path -> file content
    ret,                    \* what the last call returned or raised
    now                     \* the clock datetime.utcnow() reads

vars == <<files, verification_results, results, disk, ret, now>>

----------------------------------------------------------------------------
(* Bounds *)

MaxFiles == 2          \* small directories hold 0..MaxFiles manifests, any content
MaxClock == 2          \* number of calls made on one verifier
MaxLargeFiles == 51    \* large directories hold this many manifests, or one fewer

(* Program constants *)

LINEAGE_ID == "RepoReportEcho_092425"

(* the constant as the HTML and the Markdown dialect processors declare it *)
HTMLDialectProcessor_LINEAGE_ID == "RepoReportEcho_092425"

MarkdownDialectProcessor_LINEAGE_ID == "RepoReportEcho_092425"

SUPPORTED_HASH_ALGORITHMS == <<"sha256", "md5", "sha1">>

required_fields == <<"cve_id", "description", "severity", "published_date">>

DashboardRowLimit == 50

DescriptionLimit == 100

ChecksumShortLen == 16

----------------------------------------------------------------------------
(* Helpers *)

Range(s) == {s[i] : i \in DOMAIN s}

Min(a, b) == IF a < b THEN a ELSE b

Reverse(s) == [i \in 1..Len(s) |-> s[Len(s) + 1 - i]]

(* the empty string '', which Python treats as false *)
EmptyStr == <<>>

(* a call returns a value or raises an exception carrying a message *)
Ok(v) == [exc |-> "None", val |-> v]

Raise(e, m) == [exc |-> e, msg |-> m]

----------------------------------------------------------------------------
(* Manifest file contents *)

DefaultValue(k) ==
    CASE k = "cve_id" -> "CVE-2024-0001"
      [] k = "description" -> <<"d", "e", "s", "c">>
      [] k = "severity" -> "HIGH"
      [] k = "published_date" -> "2024-01-15T00:00:00Z"
      [] k = "lineage_id" -> "ManifestLineage_000000"
      [] OTHER -> "x"

(* a JSON object whose keys were written in the order ks *)
Obj(ks) == [kind |-> "object", keys |-> ks, val |-> [k \in Range(ks) |-> DefaultValue(k)]]

(* the same object with the values of `with` in place of the usual ones *)
ObjWith(ks, with) ==
    [kind |-> "object", keys |-> ks,
     val |-> [k \in Range(ks) |-> IF k \in DOMAIN with THEN with[k] ELSE DefaultValue(k)]]

(* JSON null, which json.load hands over as None *)
Null == "null"

(* values Python treats as false: the empty string '' of a field, and null *)
BlankValues == {"", Null}

JsonArray == [kind |-> "array", keys |-> <<>>, val |-> <<>>]

NotJson == [kind |-> "invalid", keys |-> <<>>, val |-> <<>>]

(* a file that exists and that open() refuses with PermissionError *)
Unreadable == [kind |-> "unreadable", keys |-> <<>>, val |-> <<>>]

(* the subsequences of the required fields: every set of present fields,   *)
(* in vocabulary order                                                     *)
FieldSubsets == {SelectSeq(required_fields, LAMBDA f : f \in S) : S \in SUBSET Range(required_fields)}

AllObjects == {Obj(ks) : ks \in FieldSubsets} \cup {Obj(Reverse(ks)) : ks \in FieldSubsets}

CoreContents ==
    { Obj(required_fields),
      Obj(<<"cve_id", "description", "published_date">>),
      JsonArray,
      NotJson }

LargePatterns ==
    { <<Obj(required_fields)>>,
      <<Obj(required_fields), NotJson>>,
      <<NotJson, Obj(<<"severity", "cve_id">>), Obj(required_fields)>> }

(* a directory of n files whose contents repeat the pattern pat *)
LargeDir(n, pat) == [i \in 1..n |-> pat[((i - 1) % Len(pat)) + 1]]

(* small directories of any content, and single records of every shape *)
Directories ==
    UNION {[1..n -> CoreContents] : n \in 0..MaxFiles}
    \cup {[i \in 1..1 |-> c] : c \in AllObjects \cup {Obj(required_fields \o <<"lineage_id">>)}}

(* a text of n characters *)
LongText(n) == [i \in 1..n |-> ToString(i % 10)]

(* records with descriptions at and over the display length, with none,    *)
(* and one published a day too early to count as recent                    *)
DocContents ==
    { Obj(required_fields),
      ObjWith(required_fields, [k \in {"description"} |-> LongText(DescriptionLimit)]),
      ObjWith(required_fields, [k \in {"description"} |-> LongText(DescriptionLimit + 1)]),
      Obj(<<"cve_id", "severity", "published_date">>),
      ObjWith(required_fields,
              [k \in {"description", "published_date"} |->
                  IF k = "description" THEN LongText(DescriptionLimit + 1)
                  ELSE "2024-01-14T00:00:00Z"]),
      JsonArray,
      NotJson }

DocDirectories == UNION {[1..n -> DocContents] : n \in 0..MaxFiles}

(* directories with more manifests than a document shows rows *)
LargeDirectories ==
    {LargeDir(n, pat) : n \in (MaxLargeFiles - 1)..MaxLargeFiles, pat \in LargePatterns}

(* the *.json files of the directory in an order glob may list them in:    *)
(* by name, ascending or descending (the directories above already put     *)
(* every content at every place)                                           *)
Glob(fs) ==
    LET n == Len(fs) IN {[i \in 1..n |-> i], [i \in 1..n |-> n + 1 - i]}

(* paths a caller may pass to a single-file call: one that does not exist, *)
(* and the first files of the directory                                    *)
NoSuchFile(fs) == Len(fs) + 1

CallPaths(fs) == {NoSuchFile(fs)} \cup {p \in DOMAIN fs : p <= MaxFiles}

(* what the checksum service is called on: records whose keys were written *)
(* in either order, a file that cannot be opened, and text that is not     *)
(* JSON; two files of a directory may hold the same bytes                  *)
ServiceContents ==
    { Obj(required_fields),
      Obj(Reverse(required_fields)),
      Unreadable,
      NotJson }

(* records that hold a key with a blank value: every required key is      *)
(* there, or all but severity                                              *)
BlankRecords ==
    {ObjWith(ks, [k \in {f} |-> b]) :
        ks \in {required_fields, <<"cve_id", "description", "published_date">>},
        f \in {"cve_id", "severity", "published_date"},
        b \in BlankValues}

(* a record whose severity is a word of its own *)
OddSeverityRecord == ObjWith(required_fields, [k \in {"severity"} |-> "urgent"])

ServiceDirectories ==
    UNION {[1..n -> ServiceContents] : n \in 0..MaxFiles}
    \cup {[i \in 1..1 |-> c] : c \in BlankRecords \cup {OddSeverityRecord}}

(* algorithm names a caller may pass: a supported one, one hashlib has     *)
(* that is not supported, and one hashlib does not have                    *)
CallAlgorithms == {"sha256", "sha512", "crc32"}

(* the strings a caller hashes *)
CallData == {"payload"}

----------------------------------------------------------------------------
(* Checksum service *)

HashlibNames == {"sha256", "md5", "sha1", "sha512"}

Hexdigest(algorithm, bytes) == <<algorithm, bytes>>

generate_checksum(data, algorithm) ==
    IF algorithm \notin Range(SUPPORTED_HASH_ALGORITHMS)
    THEN Raise("ValueError", "Unsupported hash algorithm")
    ELSE Ok(Hexdigest(algorithm, data))

(* mutant: a file that is not there hashes as the empty file *)
generate_file_checksum_missing_as_empty(fs, file_path, algorithm) ==
    IF file_path \notin DOMAIN fs
    THEN Ok(Hexdigest(algorithm, <<>>))
    ELSE IF algorithm \notin HashlibNames
    THEN Raise("AttributeError", "module 'hashlib' has no attribute")
    ELSE IF fs[file_path].kind = "unreadable"
    THEN Raise("PermissionError", "Permission denied")
    ELSE Ok(Hexdigest(algorithm, fs[file_path]))

(* mutant: the digest is taken over the path and the bytes *)
generate_file_checksum_of_path(fs, file_path, algorithm) ==
    IF file_path \notin DOMAIN fs
    THEN Raise("FileNotFoundError", "File not found")
    ELSE IF algorithm \notin HashlibNames
    THEN Raise("AttributeError", "module 'hashlib' has no attribute")
    ELSE IF fs[file_path].kind = "unreadable"
    THEN Raise("PermissionError", "Permission denied")
    ELSE Ok(Hexdigest(algorithm, <<file_path, fs[file_path]>>))

(* exists(), then getattr(hashlib, algorithm)(), then open(): the          *)
(* algorithm is not looked up in SUPPORTED_HASH_ALGORITHMS                 *)
generate_file_checksum(fs, file_path, algorithm) ==
    IF file_path \notin DOMAIN fs
    THEN Raise("FileNotFoundError", "File not found")
    ELSE IF algorithm \notin HashlibNames
    THEN Raise("AttributeError", "module 'hashlib' has no attribute")
    ELSE IF fs[file_path].kind = "unreadable"
    THEN Raise("PermissionError", "Permission denied")
    ELSE Ok(Hexdigest(algorithm, fs[file_path]))

----------------------------------------------------------------------------
(* Single-file verification *)

(* `field in manifest_data`: a key of the object; nothing is in the array [] *)
In(field, manifest_data) ==
    manifest_data.kind = "object" /\ field \in Range(manifest_data.keys)

(* manifest_data.get(key, default) on an object *)
Get(manifest_data, key, default) ==
    IF key \in DOMAIN manifest_data.val THEN manifest_data.val[key] ELSE default

(* mutant: the missing fields collected in the reverse of the vocabulary order *)
MissingFields_reversed(manifest_data) ==
    Reverse(SelectSeq(required_fields, LAMBDA field : ~In(field, manifest_data)))

(* mutant: a field is missing when the record has no true value for it *)
MissingFields_falsy(manifest_data) ==
    SelectSeq(required_fields,
              LAMBDA field : \/ ~In(field, manifest_data)
                             \/ /\ field # "description"
                                /\ manifest_data.val[field] \in BlankValues)

MissingFields(manifest_data) ==
    SelectSeq(required_fields, LAMBDA field : ~In(field, manifest_data))

(* json.dumps(manifest_data, sort_keys=True): the key/value pairs without  *)
(* the order they were written in                                          *)
(* mutant: json.dumps without sort_keys, the pairs in the order written *)
DumpsSorted_unsorted(manifest_data) ==
    [kind |-> manifest_data.kind, keys |-> manifest_data.keys, val |-> manifest_data.val]

DumpsSorted(manifest_data) == [kind |-> manifest_data.kind, val |-> manifest_data.val]

(* json.dumps(data): the pairs in the order the keys were written *)
Dumps(data) == [kind |-> data.kind, keys |-> data.keys, val |-> data.val]

(* mutant: a lineage_id the manifest carries is copied to the outcome *)
verify_cve_manifest_manifest_lineage(fs, manifest_path, t) ==
    IF manifest_path \notin DOMAIN fs
    THEN Raise("FileNotFoundError", "CVE manifest not found")
    ELSE IF fs[manifest_path].kind = "unreadable"
    THEN Raise("PermissionError", "Permission denied")
    ELSE IF fs[manifest_path].kind = "invalid"
    THEN Raise("JSONDecodeError", "Expecting value")
    ELSE
        LET manifest_data == fs[manifest_path]
            missing_fields == MissingFields(manifest_data)
            file_checksum == generate_file_checksum(fs, manifest_path, "sha256")
            content_checksum == generate_checksum(DumpsSorted(manifest_data), "sha256")
        IN  IF file_checksum.exc # "None" THEN file_checksum
            ELSE IF content_checksum.exc # "None" THEN content_checksum
            ELSE IF manifest_data.kind # "object"
            THEN Raise("AttributeError", "'list' object has no attribute 'get'")
            ELSE Ok([manifest_file |-> manifest_path,
                     cve_id |-> Get(manifest_data, "cve_id", "UNKNOWN"),
                     severity |-> Get(manifest_data, "severity", "UNKNOWN"),
                     file_checksum |-> file_checksum.val,
                     content_checksum |-> content_checksum.val,
                     missing_fields |-> missing_fields,
                     valid |-> Len(missing_fields) = 0,
                     timestamp |-> t,
                     lineage_id |-> Get(manifest_data, "lineage_id", LINEAGE_ID)])

verify_cve_manifest(fs, manifest_path, t) ==
    IF manifest_path \notin DOMAIN fs
    THEN Raise("FileNotFoundError", "CVE manifest not found")
    ELSE IF fs[manifest_path].kind = "unreadable"
    THEN Raise("PermissionError", "Permission denied")
    ELSE IF fs[manifest_path].kind = "invalid"
    THEN Raise("JSONDecodeError", "Expecting value")
    ELSE
        LET manifest_data == fs[manifest_path]
            missing_fields == MissingFields(manifest_data)
            file_checksum == generate_file_checksum(fs, manifest_path, "sha256")
            content_checksum == generate_checksum(DumpsSorted(manifest_data), "sha256")
        IN  IF file_checksum.exc # "None" THEN file_checksum
            ELSE IF content_checksum.exc # "None" THEN content_checksum
            ELSE IF manifest_data.kind # "object"
            THEN Raise("AttributeError", "'list' object has no attribute 'get'")
            ELSE Ok([manifest_file |-> manifest_path,
                     cve_id |-> Get(manifest_data, "cve_id", "UNKNOWN"),
                     severity |-> Get(manifest_data, "severity", "UNKNOWN"),
                     file_checksum |-> file_checksum.val,
                     content_checksum |-> content_checksum.val,
                     missing_fields |-> missing_fields,
                     valid |-> Len(missing_fields) = 0,
                     timestamp |-> t,
                     lineage_id |-> LINEAGE_ID])

----------------------------------------------------------------------------
(* Batch verification *)

(* mutant: the error outcome is built with the validity of an empty missing list *)
error_result_valid(manifest_file, e, t) ==
    [manifest_file |-> manifest_file,
     cve_id |-> "ERROR",
     severity |-> "ERROR",
     file_checksum |-> EmptyStr,
     content_checksum |-> EmptyStr,
     missing_fields |-> <<>>,
     valid |-> TRUE,
     error |-> e,
     timestamp |-> t,
     lineage_id |-> LINEAGE_ID]

(* mutant: the error outcome keeps the defaults of a record without the fields *)
error_result_unknown(manifest_file, e, t) ==
    [manifest_file |-> manifest_file,
     cve_id |-> "UNKNOWN",
     severity |-> "UNKNOWN",
     file_checksum |-> EmptyStr,
     content_checksum |-> EmptyStr,
     missing_fields |-> <<>>,
     valid |-> FALSE,
     error |-> e,
     timestamp |-> t,
     lineage_id |-> LINEAGE_ID]

error_result(manifest_file, e, t) ==
    [manifest_file |-> manifest_file,
     cve_id |-> "ERROR",
     severity |-> "ERROR",
     file_checksum |-> EmptyStr,
     content_checksum |-> EmptyStr,
     missing_fields |-> <<>>,
     valid |-> FALSE,
     error |-> e,
     timestamp |-> t,
     lineage_id |-> LINEAGE_ID]

(* mutant: a record whose cve_id another file of the directory declares    *)
(* too is reported as a duplicate                                          *)
batch_step_duplicates(fs, manifest_file, t) ==
    LET result == verify_cve_manifest(fs, manifest_file, t) IN
    IF result.exc # "None"
    THEN [result |-> error_result(manifest_file, result.msg, t), verified |-> FALSE]
    ELSE IF \E g \in DOMAIN fs :
                /\ g # manifest_file
                /\ fs[g].kind = "object"
                /\ Get(fs[g], "cve_id", "UNKNOWN") = result.val.cve_id
    THEN [result |-> error_result(manifest_file, "Duplicate CVE identifier", t),
          verified |-> FALSE]
    ELSE [result |-> result.val, verified |-> TRUE]

(* one turn of the loop over manifest_files: the outcome put on the local *)
(* list, and whether verify_cve_manifest returned, in which case it has    *)
(* appended that outcome to self.verification_results as well              *)
batch_step(fs, manifest_file, t) ==
    LET result == verify_cve_manifest(fs, manifest_file, t) IN
    IF result.exc = "None"
    THEN [result |-> result.val, verified |-> TRUE]
    ELSE [result |-> error_result(manifest_file, result.msg, t), verified |-> FALSE]

(* mutant: a file whose verification raised is logged and skipped *)
batch_loop_skipping(fs, manifest_files, t, st) ==
    LET steps == [i \in 1..Len(manifest_files) |-> batch_step(fs, manifest_files[i], t)]
        verified == SelectSeq(steps, LAMBDA s : s.verified)
    IN  [results |-> st.results \o [i \in 1..Len(verified) |-> verified[i].result],
         vr |-> st.vr \o [i \in 1..Len(verified) |-> verified[i].result]]

(* mutant: the error outcomes are kept in self.verification_results too *)
batch_loop_recording_errors(fs, manifest_files, t, st) ==
    LET steps == [i \in 1..Len(manifest_files) |-> batch_step(fs, manifest_files[i], t)]
    IN  [results |-> st.results \o [i \in 1..Len(steps) |-> steps[i].result],
         vr |-> st.vr \o [i \in 1..Len(steps) |-> steps[i].result]]

(* mutant: the outcomes of the files that failed are put after the others *)
batch_loop_errors_last(fs, manifest_files, t, st) ==
    LET steps == [i \in 1..Len(manifest_files) |-> batch_step(fs, manifest_files[i], t)]
        verified == SelectSeq(steps, LAMBDA s : s.verified)
        failed == SelectSeq(steps, LAMBDA s : ~s.verified)
    IN  [results |-> st.results \o [i \in 1..Len(verified) |-> verified[i].result]
                                \o [i \in 1..Len(failed) |-> failed[i].result],
         vr |-> st.vr \o [i \in 1..Len(verified) |-> verified[i].result]]

(* the whole loop: st.results is the local list, st.vr is                  *)
(* self.verification_results; no turn reads what an earlier turn wrote     *)
batch_loop(fs, manifest_files, t, st) ==
    LET steps == [i \in 1..Len(manifest_files) |-> batch_step(fs, manifest_files[i], t)]
        verified == SelectSeq(steps, LAMBDA s : s.verified)
    IN  [results |-> st.results \o [i \in 1..Len(steps) |-> steps[i].result],
         vr |-> st.vr \o [i \in 1..Len(verified) |-> verified[i].result]]

(* mutant: the directory is globbed without asking whether it exists *)
batch_verify_manifests_any_directory(fs, manifest_directory, manifest_files, t, vr) ==
    batch_loop(fs, manifest_files, t, [results |-> <<>>, vr |-> vr])

(* manifest_directory is "data/cve", which the constructor creates, or a   *)
(* directory that does not exist                                           *)
batch_verify_manifests(fs, manifest_directory, manifest_files, t, vr) ==
    IF manifest_directory # "data/cve"
    THEN [results |-> <<>>, vr |-> vr]
    ELSE batch_loop(fs, manifest_files, t, [results |-> <<>>, vr |-> vr])

----------------------------------------------------------------------------
(* Paths and the report files *)

(* a path is its directory, the stem of its name as a list of pieces, and  *)
(* its last suffix ("" when it has none)                                   *)
PathName(path) == path.stem \o (IF path.suffix = "" THEN <<>> ELSE <<path.suffix>>)

(* Path.with_suffix(suffix): the last suffix is replaced, or the suffix is *)
(* appended when the name has none; the result as a key of the disk        *)
WithSuffix(path, suffix) == [parent |-> path.parent, name |-> path.stem \o suffix]

FileKey(path) == [parent |-> path.parent, name |-> PathName(path)]

(* strftime("%Y%m%d_%H%M%S") of the clock *)
Strftime(t) == ToString(t)

DefaultPath(dir, suffix, t) ==
    [parent |-> dir, stem |-> <<"cve_verification_report_", Strftime(t)>>, suffix |-> suffix]

NoPath == [parent |-> "", stem |-> <<>>, suffix |-> ""]

(* the path a caller passes instead of the default one *)
OutputPaths == {[parent |-> "out", stem |-> <<"report">>, suffix |-> ".txt"]}

WriteFile(dk, key, content) == (key :> content) @@ dk

(* the sidecar line f"{report_checksum}  {output_path.name}\n" *)
SidecarLine(report_checksum, output_path) ==
    <<report_checksum, "  ", PathName(output_path), "\n">>

(* the sha256 of the file at key as it is on the disk dk *)
FileDigest(dk, key) == Hexdigest("sha256", dk[key])

----------------------------------------------------------------------------
(* What the renderers compute *)

(* the keys of an outcome in the order the dict was built *)
Keys(result) ==
    IF "error" \in DOMAIN result
    THEN <<"manifest_file", "cve_id", "severity", "file_checksum", "content_checksum",
           "missing_fields", "valid", "error", "timestamp", "lineage_id">>
    ELSE <<"manifest_file", "cve_id", "severity", "file_checksum", "content_checksum",
           "missing_fields", "valid", "timestamp", "lineage_id">>

ValidCount(rs) == Len(SelectSeq(rs, LAMBDA r : r.valid))

(* num / den * 100 rounded to `scale` of a percent, ties to even:          *)
(* scale 10 is the format :.1f, scale 100 is round(x, 2)                   *)
RoundPercent(num, den, scale) ==
    LET n == num * 100 * scale
        q == n \div den
        r == n % den
    IN  IF 2 * r > den \/ (2 * r = den /\ q % 2 = 1) THEN q + 1 ELSE q

(* sep.join(items) *)
Join(sep, items) ==
    IF items = <<>> THEN <<>>
    ELSE [i \in 1..(2 * Len(items) - 1) |-> IF i % 2 = 1 THEN items[(i + 1) \div 2] ELSE sep]

(* ", ".join(result.get('missing_fields', [])) or "None" *)
Issues(result) ==
    LET joined == Join(", ", result.missing_fields) IN
    IF joined = <<>> THEN <<"None">> ELSE joined

(* result.get('file_checksum', '')[:16] + "..." if result.get('file_checksum') else "N/A" *)
ChecksumShort(result) ==
    IF result.file_checksum # EmptyStr
    THEN <<"first", ChecksumShortLen, result.file_checksum, "...">>
    ELSE <<"N/A">>

StatusText(result) == IF result.valid THEN "VALID" ELSE "INVALID"

(* the table row the core Markdown and HTML reports emit for one outcome *)
ReportRow(result) ==
    [cve_id |-> result.cve_id,
     severity |-> result.severity,
     status |-> StatusText(result),
     checksum |-> ChecksumShort(result),
     issues |-> Issues(result),
     timestamp |-> result.timestamp]

ReportRows(rs) == [i \in 1..Len(rs) |-> ReportRow(rs[i])]

----------------------------------------------------------------------------
(* Core renderers: each returns the disk it leaves and its return value    *)

ResolvePath(output_path, dir, suffix, t) ==
    IF output_path = NoPath THEN DefaultPath(dir, suffix, t) ELSE output_path

(* the artifact is on disk: checksum it and write the sidecar beside it *)
WriteSidecar(dk, output_path, suffix) ==
    LET report_checksum == FileDigest(dk, FileKey(output_path))
        checksum_path == WithSuffix(output_path, <<suffix, ".sha256">>)
    IN  WriteFile(dk, checksum_path, SidecarLine(report_checksum, output_path))

(* the dict row as DictWriter lays it out, absent keys written as '' *)
CsvRow(fieldnames, result) ==
    [i \in 1..Len(fieldnames) |->
        IF fieldnames[i] \in DOMAIN result THEN result[fieldnames[i]] ELSE EmptyStr]

(* a renderer gives the disk it leaves, the disk as it is once the artifact *)
(* is closed, whether it goes on to open the sidecar, and what it returns  *)
generate_csv_report(dk, rs, output_path, t) ==
    LET path == ResolvePath(output_path, "reports/csv", ".csv", t) IN
    IF rs = <<>> THEN [disk |-> dk, closed |-> dk, sidecar |-> FALSE, ret |-> Ok(path)]
    ELSE
        LET fieldnames == Keys(rs[1])
            \* DictWriter raises on the first row that has a key outside fieldnames
            bad == {i \in 1..Len(rs) : ~(DOMAIN rs[i] \subseteq Range(fieldnames))}
            written == IF bad = {} THEN Len(rs)
                       ELSE (CHOOSE i \in bad : \A j \in bad : i <= j) - 1
            content == [fmt |-> "csv", header |-> fieldnames,
                        rows |-> [i \in 1..written |-> CsvRow(fieldnames, rs[i])]]
            dk1 == WriteFile(dk, FileKey(path), content)
        IN  IF bad # {}
            THEN [disk |-> dk1, closed |-> dk1, sidecar |-> FALSE,
                  ret |-> Raise("ValueError", "dict contains fields not in fieldnames: 'error'")]
            ELSE [disk |-> WriteSidecar(dk1, path, ".csv"), closed |-> dk1,
                  sidecar |-> TRUE, ret |-> Ok(path)]

generate_markdown_report(dk, rs, output_path, t) ==
    LET path == ResolvePath(output_path, "reports/md", ".md", t)
        valid_count == ValidCount(rs)
        invalid_count == Len(rs) - valid_count
    IN  \* the f-string divides by len(results) whatever the list holds
        IF Len(rs) = 0
        THEN [disk |-> dk, closed |-> dk, sidecar |-> FALSE,
              ret |-> Raise("ZeroDivisionError", "division by zero")]
        ELSE
            LET content == [fmt |-> "md", lineage |-> LINEAGE_ID, generated |-> t,
                            total |-> Len(rs), valid_count |-> valid_count,
                            invalid_count |-> invalid_count,
                            success_rate |-> RoundPercent(valid_count, Len(rs), 10),
                            rate_suffix |-> "% if results else 0",
                            rows |-> ReportRows(rs)]
                dk1 == WriteFile(dk, FileKey(path), content)
            IN  [disk |-> WriteSidecar(dk1, path, ".md"), closed |-> dk1,
                 sidecar |-> TRUE, ret |-> Ok(path)]

generate_html_report(dk, rs, output_path, t) ==
    LET path == ResolvePath(output_path, "reports/html", ".html", t)
        valid_count == ValidCount(rs)
        invalid_count == Len(rs) - valid_count
        success_rate == IF rs # <<>> THEN RoundPercent(valid_count, Len(rs), 10) ELSE 0
        content == [fmt |-> "html", lineage |-> LINEAGE_ID, generated |-> t,
                    total |-> Len(rs), valid_count |-> valid_count,
                    invalid_count |-> invalid_count,
                    success_rate |-> success_rate,
                    rate_suffix |-> "%",
                    rows |-> ReportRows(rs)]
        dk1 == WriteFile(dk, FileKey(path), content)
    IN  [disk |-> WriteSidecar(dk1, path, ".html"), closed |-> dk1,
         sidecar |-> TRUE, ret |-> Ok(path)]

(* mutant: the HTML and Markdown reports are written before the CSV one *)
run_full_verification_csv_last(fs, dk, manifest_files, t, vr) ==
    LET st == batch_verify_manifests(fs, "data/cve", manifest_files, t, vr) IN
    IF st.results = <<>>
    THEN [disk |-> dk, vr |-> st.vr, results |-> st.results, ret |-> Ok(<<"None", "None", "None">>)]
    ELSE
        LET html == generate_html_report(dk, st.results, NoPath, t)
            md == generate_markdown_report(html.disk, st.results, NoPath, t)
            csv == generate_csv_report(md.disk, st.results, NoPath, t)
        IN  IF csv.ret.exc # "None"
            THEN [disk |-> csv.disk, vr |-> st.vr, results |-> st.results, ret |-> csv.ret]
            ELSE [disk |-> csv.disk, vr |-> st.vr, results |-> st.results,
                  ret |-> Ok(<<csv.ret.val, md.ret.val, html.ret.val>>)]

(* batch, then the three renderers in turn; the first exception ends it *)
run_full_verification(fs, dk, manifest_files, t, vr) ==
    LET st == batch_verify_manifests(fs, "data/cve", manifest_files, t, vr) IN
    IF st.results = <<>>
    THEN [disk |-> dk, vr |-> st.vr, results |-> st.results, ret |-> Ok(<<"None", "None", "None">>)]
    ELSE
        LET csv == generate_csv_report(dk, st.results, NoPath, t) IN
        IF csv.ret.exc # "None"
        THEN [disk |-> csv.disk, vr |-> st.vr, results |-> st.results, ret |-> csv.ret]
        ELSE
            LET md == generate_markdown_report(csv.disk, st.results, NoPath, t) IN
            IF md.ret.exc # "None"
            THEN [disk |-> md.disk, vr |-> st.vr, results |-> st.results, ret |-> md.ret]
            ELSE
                LET html == generate_html_report(md.disk, st.results, NoPath, t) IN
                IF html.ret.exc # "None"
                THEN [disk |-> html.disk, vr |-> st.vr, results |-> st.results, ret |-> html.ret]
                ELSE [disk |-> html.disk, vr |-> st.vr, results |-> st.results,
                      ret |-> Ok(<<csv.ret.val, md.ret.val, html.ret.val>>)]

(* mutant: every run ends with status 0 *)
main_exit_zero(fs, dk, manifest_files, t) ==
    LET run == run_full_verification(fs, dk, manifest_files, t, <<>>) IN
    [run |-> run, exit_status |-> 0]

(* main(): a new verifier, run_full_verification inside try; an exception  *)
(* is logged and ends the process with sys.exit(1), otherwise the process  *)
(* ends with status 0                                                      *)
main(fs, dk, manifest_files, t) ==
    LET run == run_full_verification(fs, dk, manifest_files, t, <<>>) IN
    [run |-> run, exit_status |-> IF run.ret.exc # "None" THEN 1 ELSE 0]

----------------------------------------------------------------------------
(* HTML dialect: the dashboard; Python dialect: the severity analysis      *)

PubDateLen == 10

TimestampShortLen == 16

(* str.upper() on the severities manifests carry *)
Upper(x) ==
    CASE x = "high" -> "HIGH"
      [] x = "low" -> "LOW"
      [] x = "critical" -> "CRITICAL"
      [] OTHER -> x

(* mutant: a description of exactly 100 characters is cut too *)
TruncateDescription_at_limit(description) ==
    IF Len(description) >= DescriptionLimit
    THEN SubSeq(description, 1, DescriptionLimit) \o <<".", ".", ".">>
    ELSE description

(* description[:100] + "..." when it is longer than 100 characters *)
TruncateDescription(description) ==
    IF Len(description) > DescriptionLimit
    THEN SubSeq(description, 1, DescriptionLimit) \o <<".", ".", ".">>
    ELSE description

NoDescription == <<"No description available">>

CveRow(cve) ==
    [cve_id |-> Get(cve, "cve_id", "UNKNOWN"),
     severity |-> Upper(Get(cve, "severity", "UNKNOWN")),
     cvss_score |-> Get(cve, "cvss_score", "N/A"),
     pub_date |-> IF "published_date" \in DOMAIN cve.val
                  THEN <<"first", PubDateLen, cve.val["published_date"]>>
                  ELSE <<"Unknown">>,
     description |-> TruncateDescription(Get(cve, "description", NoDescription))]

DashboardRow(result) ==
    [cve_id |-> result.cve_id,
     status |-> StatusText(result),
     severity |-> result.severity,
     checksum |-> ChecksumShort(result),
     issues |-> Issues(result),
     timestamp |-> <<"first", TimestampShortLen, result.timestamp>>]

(* s[:n] of a list *)
FirstN(s, n) == SubSeq(s, 1, Min(n, Len(s)))

generate_dashboard_html(cve_data, rs, t) ==
    IF \E i \in 1..Len(cve_data) : cve_data[i].kind # "object"
    THEN Raise("AttributeError", "'list' object has no attribute 'get'")
    ELSE
        LET total_verifications == Len(rs)
            valid_verifications == ValidCount(rs)
            success_rate == IF total_verifications > 0
                            THEN RoundPercent(valid_verifications, total_verifications, 10)
                            ELSE 0
            shown_cves == FirstN(cve_data, DashboardRowLimit)
            shown == FirstN(rs, DashboardRowLimit)
        IN  Ok([fmt |-> "dashboard", lineage |-> HTMLDialectProcessor_LINEAGE_ID,
                generated |-> t,
                total_cves |-> Len(cve_data),
                total |-> total_verifications,
                valid_count |-> valid_verifications,
                success_rate |-> success_rate,
                cve_rows |-> [i \in 1..Len(shown_cves) |-> CveRow(shown_cves[i])],
                rows |-> [i \in 1..Len(shown) |-> DashboardRow(shown[i])]])

----------------------------------------------------------------------------
(* The security documentation of the Markdown dialect *)

RecentDays == 30

RecentLimit == 10

DetailLimit == 20

(* (datetime.now(tz) - datetime.fromisoformat(pub_date)).days for a run on *)
(* 2024-02-14, for the dates manifests carry                               *)
DaysSince(pub_date) ==
    CASE pub_date = "2024-01-15T00:00:00Z" -> 30
      [] pub_date = "2024-01-14T00:00:00Z" -> 31

IsRecent(cve) ==
    /\ Get(cve, "published_date", "") # ""
    /\ DaysSince(cve.val["published_date"]) <= RecentDays

(* a row of the recent-vulnerabilities table; the conditional expression   *)
(* takes the length of the description, '' when the key is absent          *)
RecentRow(cve) ==
    [cve_id |-> Get(cve, "cve_id", "UNKNOWN"),
     severity |-> Get(cve, "severity", "UNKNOWN"),
     pub_date |-> <<"first", PubDateLen, Get(cve, "published_date", "Unknown")>>,
     description |-> IF Len(Get(cve, "description", EmptyStr)) > DescriptionLimit
                     THEN SubSeq(Get(cve, "description", NoDescription), 1, DescriptionLimit)
                          \o <<".", ".", ".">>
                     ELSE Get(cve, "description", NoDescription)]

DetailEntry(cve) ==
    [cve_id |-> Get(cve, "cve_id", "UNKNOWN"),
     severity |-> Get(cve, "severity", "UNKNOWN"),
     cvss_score |-> Get(cve, "cvss_score", "N/A"),
     description |-> Get(cve, "description", NoDescription)]

generate_security_documentation(cve_data, t) ==
    IF \E i \in 1..Len(cve_data) : cve_data[i].kind # "object"
    THEN Raise("AttributeError", "'list' object has no attribute 'get'")
    ELSE
        LET severities == {Upper(Get(cve_data[i], "severity", "UNKNOWN")) : i \in 1..Len(cve_data)}
            recent_cves == SelectSeq(cve_data, IsRecent)
            shown == FirstN(recent_cves, RecentLimit)
            critical_high == SelectSeq(cve_data,
                                 LAMBDA cve : Upper(Get(cve, "severity", "")) \in {"CRITICAL", "HIGH"})
            detailed == FirstN(critical_high, DetailLimit)
        IN  Ok([fmt |-> "security_documentation",
                lineage |-> MarkdownDialectProcessor_LINEAGE_ID,
                generated |-> t,
                total_cves |-> Len(cve_data),
                severity_counts |->
                    [x \in severities |->
                        Len(SelectSeq(cve_data,
                                      LAMBDA cve : Upper(Get(cve, "severity", "UNKNOWN")) = x))],
                recent_count |-> Len(recent_cves),
                recent_rows |-> [i \in 1..Len(shown) |-> RecentRow(shown[i])],
                detailed |-> [i \in 1..Len(detailed) |-> DetailEntry(detailed[i])]])

----------------------------------------------------------------------------

analyze_severity_distribution(rs, t) ==
    IF rs = <<>> THEN Ok([error |-> "No results to analyze"])
    ELSE
        LET total_count == Len(rs)
            valid == ValidCount(rs)
            severities == {rs[i].severity : i \in 1..Len(rs)}
        IN  Ok([total_manifests |-> total_count,
                severity_distribution |->
                    [x \in severities |-> Len(SelectSeq(rs, LAMBDA r : r.severity = x))],
                valid |-> valid,
                invalid |-> Len(SelectSeq(rs, LAMBDA r : ~r.valid)),
                valid_percentage |-> RoundPercent(valid, total_count, 100),
                analysis_timestamp |-> t,
                lineage_id |-> LINEAGE_ID])
(* len() of a hex digest *)
HexLength(digest) ==
    CASE digest[1] = "md5" -> 32
      [] digest[1] = "sha1" -> 40
      [] digest[1] = "sha256" -> 64
      [] digest[1] = "sha512" -> 128

(* the function reads file_checksum of each outcome and builds a dict of   *)
(* its own; the set of distinct checksums is replaced by its size          *)
calculate_checksum_integrity(rs, t) ==
    IF rs = <<>> THEN Ok([error |-> "No results to analyze"])
    ELSE
        LET with_checksum == SelectSeq(rs, LAMBDA r : r.file_checksum # EmptyStr)
            unique_checksums == {with_checksum[i].file_checksum : i \in 1..Len(with_checksum)}
            lengths == {HexLength(c) : c \in unique_checksums}
        IN  Ok([total_files |-> Len(rs),
                files_with_checksums |-> Len(with_checksum),
                checksum_length_distribution |->
                    [n \in lengths |->
                        Len(SelectSeq(with_checksum, LAMBDA r : HexLength(r.file_checksum) = n))],
                potential_duplicates |-> <<>>,
                unique_checksum_count |-> Cardinality(unique_checksums),
                integrity_percentage |-> RoundPercent(Len(with_checksum), Len(rs), 100),
                analysis_timestamp |-> t,
                lineage_id |-> LINEAGE_ID])


(* the parsed content of every manifest that is JSON, as the dialect       *)
(* processors load data/cve                                                *)
LoadCveData(fs) == SelectSeq(fs, LAMBDA c : c.kind \in {"object", "array"})

(* the outcome process_and_generate_dashboard makes up for a loaded record *)
SimulatedResult(cve, t) ==
    [cve_id |-> Get(cve, "cve_id", "UNKNOWN"),
     severity |-> Get(cve, "severity", "UNKNOWN"),
     valid |-> TRUE,
     file_checksum |-> Hexdigest("sha256", Dumps(cve)),
     missing_fields |-> <<>>,
     timestamp |-> t,
     lineage_id |-> HTMLDialectProcessor_LINEAGE_ID]

DashboardPath == [parent |-> "docs", stem |-> <<"index">>, suffix |-> ".html"]

ConfigPath == [parent |-> ".", stem |-> <<"_config">>, suffix |-> ".yml"]

DocsReadmePath == [parent |-> "docs", stem |-> <<"README">>, suffix |-> ".md"]

SummaryPath(t) ==
    [parent |-> "reports", stem |-> <<"html_processor_summary_", Strftime(t)>>, suffix |-> ".json"]

(* f"{path}.sha256": the whole file name with .sha256 after it *)
ChecksumFileKey(path) == [parent |-> path.parent, name |-> PathName(path) \o <<".sha256">>]

(* json_files is data/cve as glob lists it; a file that does not load is   *)
(* logged and left out, and every record that loads gets a made-up outcome *)
process_and_generate_dashboard(fs, dk, json_files, t) ==
    LET loaded == SelectSeq(json_files, LAMBDA f : fs[f].kind \in {"object", "array"})
        cve_data == [i \in 1..Len(loaded) |-> fs[loaded[i]]]
    IN  IF \E i \in 1..Len(cve_data) : cve_data[i].kind # "object"
        THEN [disk |-> dk, ret |-> Raise("AttributeError", "'list' object has no attribute 'get'")]
        ELSE
            LET verification_results_ ==
                    [i \in 1..Len(cve_data) |-> SimulatedResult(cve_data[i], t)]
                dashboard_html == generate_dashboard_html(cve_data, verification_results_, t).val
                pages_config == [fmt |-> "pages_config"]
                docs_readme == [fmt |-> "docs_readme",
                                lineage |-> HTMLDialectProcessor_LINEAGE_ID, updated |-> t]
                dashboard_checksum == Hexdigest("sha256", dashboard_html)
                config_checksum == Hexdigest("sha256", pages_config)
                summary_data ==
                    [timestamp |-> t,
                     lineage_id |-> HTMLDialectProcessor_LINEAGE_ID,
                     checksums |-> [dashboard |-> dashboard_checksum, config |-> config_checksum],
                     cve_records_processed |-> Len(cve_data),
                     verification_results |-> Len(verification_results_),
                     status |-> "SUCCESS"]
                dk1 == WriteFile(dk, FileKey(DashboardPath), dashboard_html)
                dk2 == WriteFile(dk1, FileKey(ConfigPath), pages_config)
                dk3 == WriteFile(dk2, FileKey(DocsReadmePath), docs_readme)
                dk4 == WriteFile(dk3, ChecksumFileKey(DashboardPath),
                                 SidecarLine(dashboard_checksum, DashboardPath))
                dk5 == WriteFile(dk4, ChecksumFileKey(ConfigPath),
                                 SidecarLine(config_checksum, ConfigPath))
                dk6 == WriteFile(dk5, FileKey(SummaryPath(t)), summary_data)
            IN  [disk |-> dk6,
                 ret |-> Ok([dashboard_path |-> DashboardPath,
                             config_path |-> ConfigPath,
                             summary_path |-> SummaryPath(t),
                             dashboard_checksum |-> dashboard_checksum,
                             github_pages_ready |-> TRUE])]

----------------------------------------------------------------------------
(* Actions *)

Init ==
    /\ files \in Directories
    /\ verification_results = <<>>
    /\ results = <<>>
    /\ disk = <<>>
    /\ ret = [op |-> "__init__", exc |-> "None"]
    /\ now = 0

InitLarge ==
    /\ files \in LargeDirectories
    /\ verification_results = <<>>
    /\ results = <<>>
    /\ disk = <<>>
    /\ ret = [op |-> "__init__", exc |-> "None"]
    /\ now = 0

(* mutant: a call that fails leaves an outcome for its file in the list *)
CallVerifyCveManifest_recording_failures(manifest_path) ==
    /\ now < MaxClock
    /\ \E r \in {verify_cve_manifest(files, manifest_path, now)} :
        /\ ret' = [op |-> "verify_cve_manifest", arg |-> manifest_path] @@ r
        /\ verification_results' =
               IF r.exc = "None" THEN Append(verification_results, r.val)
               ELSE Append(verification_results, error_result(manifest_path, r.msg, now))
    /\ now' = now + 1
    /\ UNCHANGED <<files, results, disk>>

CallVerifyCveManifest(manifest_path) ==
    /\ now < MaxClock
    /\ \E r \in {verify_cve_manifest(files, manifest_path, now)} :
        /\ ret' = [op |-> "verify_cve_manifest", arg |-> manifest_path] @@ r
        /\ verification_results' =
               IF r.exc = "None" THEN Append(verification_results, r.val)
               ELSE verification_results
    /\ now' = now + 1
    /\ UNCHANGED <<files, results, disk>>

CallBatchVerifyManifests(manifest_directory, manifest_files) ==
    /\ now < MaxClock
    /\ \E st \in {batch_verify_manifests(files, manifest_directory, manifest_files, now,
                                        verification_results)} :
        /\ ret' = [op |-> "batch_verify_manifests", arg |-> manifest_directory,
                   order |-> IF manifest_directory = "data/cve" THEN manifest_files
                             ELSE <<>>,
                   exc |-> "None", val |-> st.results]
        /\ results' = st.results
        /\ verification_results' = st.vr
    /\ now' = now + 1
    /\ UNCHANGED <<files, disk>>

(* mutant: the rows are completed in place with the keys they lack *)
CallGenerateCsvReport_filling(output_path) ==
    /\ now < MaxClock
    /\ \E r \in {generate_csv_report(disk, results, output_path, now)} :
        /\ disk' = r.disk
        /\ ret' = [op |-> "generate_csv_report", arg |-> results] @@ r.ret
    /\ results' = [i \in 1..Len(results) |-> results[i] @@ [error |-> EmptyStr]]
    /\ now' = now + 1
    /\ UNCHANGED <<files, verification_results>>

CallGenerateCsvReport(output_path) ==
    /\ now < MaxClock
    /\ \E r \in {generate_csv_report(disk, results, output_path, now)} :
        /\ disk' = r.disk
        /\ ret' = [op |-> "generate_csv_report", arg |-> results] @@ r.ret
    /\ now' = now + 1
    /\ UNCHANGED <<files, verification_results, results>>

CallGenerateMarkdownReport(output_path) ==
    /\ now < MaxClock
    /\ \E r \in {generate_markdown_report(disk, results, output_path, now)} :
        /\ disk' = r.disk
        /\ ret' = [op |-> "generate_markdown_report", arg |-> results] @@ r.ret
    /\ now' = now + 1
    /\ UNCHANGED <<files, verification_results, results>>

CallGenerateHtmlReport(output_path) ==
    /\ now < MaxClock
    /\ \E r \in {generate_html_report(disk, results, output_path, now)} :
        /\ disk' = r.disk
        /\ ret' = [op |-> "generate_html_report", arg |-> results] @@ r.ret
    /\ now' = now + 1
    /\ UNCHANGED <<files, verification_results, results>>

(* a render call that ends between its two writes: the artifact is closed, *)
(* then open(checksum_path, 'w') raises OSError, which no renderer catches *)
CallRenderInterrupted(op, output_path) ==
    /\ now < MaxClock
    /\ \E r \in {IF op = "generate_csv_report"
                  THEN generate_csv_report(disk, results, output_path, now)
                  ELSE IF op = "generate_markdown_report"
                  THEN generate_markdown_report(disk, results, output_path, now)
                  ELSE generate_html_report(disk, results, output_path, now)} :
        /\ r.sidecar
        /\ disk' = r.closed
        /\ ret' = [op |-> op, arg |-> results, path |-> r.ret.val]
                   @@ Raise("OSError", "No space left on device")
    /\ now' = now + 1
    /\ UNCHANGED <<files, verification_results, results>>

CallRunFullVerification(manifest_files) ==
    /\ now < MaxClock
    /\ \E r \in {run_full_verification(files, disk, manifest_files, now, verification_results)} :
        /\ disk' = r.disk
        /\ verification_results' = r.vr
        /\ ret' = [op |-> "run_full_verification", arg |-> r.results] @@ r.ret
    /\ now' = now + 1
    /\ UNCHANGED <<files, results>>

CallGenerateDashboardHtml ==
    /\ now < MaxClock
    /\ ret' = [op |-> "generate_dashboard_html", arg |-> results]
              @@ generate_dashboard_html(LoadCveData(files), results, now)
    /\ now' = now + 1
    /\ UNCHANGED <<files, verification_results, results, disk>>

CallGenerateSecurityDocumentation ==
    /\ now < MaxClock
    /\ ret' = [op |-> "generate_security_documentation", arg |-> LoadCveData(files)]
              @@ generate_security_documentation(LoadCveData(files), now)
    /\ now' = now + 1
    /\ UNCHANGED <<files, verification_results, results, disk>>

CallCalculateChecksumIntegrity ==
    /\ now < MaxClock
    /\ ret' = [op |-> "calculate_checksum_integrity", arg |-> results]
              @@ calculate_checksum_integrity(results, now)
    /\ now' = now + 1
    /\ UNCHANGED <<files, verification_results, results, disk>>

CallAnalyzeSeverityDistribution ==
    /\ now < MaxClock
    /\ ret' = [op |-> "analyze_severity_distribution", arg |-> results]
              @@ analyze_severity_distribution(results, now)
    /\ now' = now + 1
    /\ UNCHANGED <<files, verification_results, results, disk>>

CallProcessAndGenerateDashboard(json_files) ==
    /\ now < MaxClock
    /\ \E r \in {process_and_generate_dashboard(files, disk, json_files, now)} :
        /\ disk' = r.disk
        /\ ret' = [op |-> "process_and_generate_dashboard", arg |-> json_files] @@ r.ret
    /\ now' = now + 1
    /\ UNCHANGED <<files, verification_results, results>>

(* main() builds a verifier of its own, whose result list starts empty *)
CallMain(manifest_files) ==
    /\ now < MaxClock
    /\ \E r \in {main(files, disk, manifest_files, now)} :
        /\ disk' = r.run.disk
        /\ verification_results' = r.run.vr
        /\ ret' = [op |-> "main", arg |-> r.run.results, run |-> r.run.ret,
                   exit_status |-> r.exit_status]
    /\ now' = now + 1
    /\ UNCHANGED <<files, results>>

CallGenerateChecksum(data, algorithm) ==
    /\ now < MaxClock
    /\ ret' = [op |-> "generate_checksum", arg |-> data, algorithm |-> algorithm]
              @@ generate_checksum(data, algorithm)
    /\ now' = now + 1
    /\ UNCHANGED <<files, verification_results, results, disk>>

CallGenerateFileChecksum(file_path, algorithm) ==
    /\ now < MaxClock
    /\ ret' = [op |-> "generate_file_checksum", arg |-> file_path, algorithm |-> algorithm]
              @@ generate_file_checksum(files, file_path, algorithm)
    /\ now' = now + 1
    /\ UNCHANGED <<files, verification_results, results, disk>>

Next ==
    \/ \E p \in CallPaths(files) : CallVerifyCveManifest(p)
    \/ \E d \in {"data/cve", "data/absent"}, o \in Glob(files) : CallBatchVerifyManifests(d, o)
    \/ \E p \in OutputPaths \cup {NoPath} : CallGenerateCsvReport(p)
    \/ \E p \in OutputPaths \cup {NoPath} : CallGenerateMarkdownReport(p)
    \/ \E p \in OutputPaths \cup {NoPath} : CallGenerateHtmlReport(p)
    \/ \E o \in Glob(files) : CallRunFullVerification(o)
    \/ CallGenerateDashboardHtml
    \/ CallAnalyzeSeverityDistribution
    \/ \E o \in Glob(files) : CallProcessAndGenerateDashboard(o)
    \/ \E o \in Glob(files) : CallMain(o)

Spec == Init /\ [][Next]_vars

(* the same verifier over a large directory *)
SpecLarge == InitLarge /\ [][Next]_vars

(* the checksum service and the verification calls, on files of every kind *)
InitService ==
    /\ files \in ServiceDirectories
    /\ verification_results = <<>>
    /\ results = <<>>
    /\ disk = <<>>
    /\ ret = [op |-> "__init__", exc |-> "None"]
    /\ now = 0

NextService ==
    \/ \E d \in CallData, a \in CallAlgorithms : CallGenerateChecksum(d, a)
    \/ \E p \in CallPaths(files), a \in CallAlgorithms : CallGenerateFileChecksum(p, a)
    \/ \E p \in CallPaths(files) : CallVerifyCveManifest(p)
    \/ \E d \in {"data/cve", "data/absent"}, o \in Glob(files) : CallBatchVerifyManifests(d, o)

SpecService == InitService /\ [][NextService]_vars

(* a batch, the renderers, each of which may fail at its sidecar, and the  *)
(* analysis functions of the Python dialect                                *)
NextRender ==
    \/ \E d \in {"data/cve", "data/absent"}, o \in Glob(files) : CallBatchVerifyManifests(d, o)
    \/ \E p \in OutputPaths \cup {NoPath} : CallGenerateCsvReport(p)
    \/ \E p \in OutputPaths \cup {NoPath} : CallGenerateMarkdownReport(p)
    \/ \E p \in OutputPaths \cup {NoPath} : CallGenerateHtmlReport(p)
    \/ \E op \in {"generate_csv_report", "generate_markdown_report", "generate_html_report"},
          p \in OutputPaths \cup {NoPath} : CallRenderInterrupted(op, p)
    \/ CallAnalyzeSeverityDistribution
    \/ CallCalculateChecksumIntegrity

SpecRender == Init /\ [][NextRender]_vars

(* the documents of the HTML and Markdown dialects over records with long  *)
(* descriptions                                                            *)
InitDocs ==
    /\ files \in DocDirectories
    /\ verification_results = <<>>
    /\ results = <<>>
    /\ disk = <<>>
    /\ ret = [op |-> "__init__", exc |-> "None"]
    /\ now = 0

NextDocs ==
    \/ \E o \in Glob(files) : CallBatchVerifyManifests("data/cve", o)
    \/ CallGenerateDashboardHtml
    \/ CallGenerateSecurityDocumentation

SpecDocs == InitDocs /\ [][NextDocs]_vars

----------------------------------------------------------------------------
(* Properties *)

IsBatchReturn == ret.op = "batch_verify_manifests" /\ ret.arg = "data/cve"

(* the outcomes the last call handed back to its caller *)
ReturnedOutcomes ==
    IF ret.op = "batch_verify_manifests" THEN Range(ret.val)
    ELSE IF ret.op = "verify_cve_manifest" /\ ret.exc = "None" THEN {ret.val}
    ELSE {}

(* the file loads as a record: it is JSON and the JSON is an object *)
LoadsAsRecord(c) == c.kind = "object"

HasAllRequired(c) == LoadsAsRecord(c) /\ Range(required_fields) \subseteq Range(c.keys)

IndexIn(x, seq) == CHOOSE i \in 1..Len(seq) : seq[i] = x

(* C1: a batch over a directory of N *.json files returns exactly N        *)
(* outcomes, one per file, and the outcome of every file whose             *)
(* verification fails has valid = false and a non-empty error value.       *)
C1_BatchAccountsForEveryFile ==
    IsBatchReturn =>
        /\ Len(ret.val) = Cardinality(DOMAIN files)
        /\ \A f \in DOMAIN files :
              Cardinality({i \in 1..Len(ret.val) : ret.val[i].manifest_file = f}) = 1
        /\ \A i \in 1..Len(ret.val) :
              ~LoadsAsRecord(files[ret.val[i].manifest_file]) =>
                  /\ ret.val[i].valid = FALSE
                  /\ "error" \in DOMAIN ret.val[i]
                  /\ ret.val[i].error # ""

C1_Witness ==
    /\ IsBatchReturn
    /\ Len(ret.val) = 2
    /\ \E i, j \in 1..Len(ret.val) :
          /\ files[ret.val[i].manifest_file].kind = "invalid"
          /\ files[ret.val[j].manifest_file].kind = "object"

(* C2: a returned outcome has valid = true exactly when its file loaded    *)
(* as a record without error and its missing_fields list is empty; a       *)
(* manifest holding all four required fields yields valid = true and       *)
(* missing_fields = [].                                                    *)
C2_ValidIffParsedAndComplete ==
    \A o \in ReturnedOutcomes :
        LET c == files[o.manifest_file] IN
        /\ o.valid <=> (LoadsAsRecord(c) /\ o.missing_fields = <<>>)
        /\ HasAllRequired(c) => (o.valid /\ o.missing_fields = <<>>)

C2_Witness ==
    /\ IsBatchReturn
    /\ \E o1, o2 \in ReturnedOutcomes :
          /\ HasAllRequired(files[o1.manifest_file]) /\ o1.valid
          /\ files[o2.manifest_file].kind = "array" /\ ~o2.valid /\ o2.missing_fields = <<>>

(* C3: for a parsed record, missing_fields is exactly the required fields  *)
(* absent from the record, in the fixed vocabulary order whatever the      *)
(* order of the record's keys, and valid = false when it is non-empty.     *)
C3_MissingFieldsExactInOrder ==
    \A o \in ReturnedOutcomes :
        "error" \notin DOMAIN o =>
            LET c == files[o.manifest_file]
                m == o.missing_fields
            IN  /\ Range(m) = Range(required_fields) \ Range(c.keys)
                /\ \A i, j \in 1..Len(m) :
                      i < j => IndexIn(m[i], required_fields) < IndexIn(m[j], required_fields)
                /\ (m # <<>>) => (o.valid = FALSE)

C3_Witness ==
    /\ ret.op = "verify_cve_manifest" /\ ret.exc = "None"
    /\ files[ret.val.manifest_file].keys = <<"severity", "cve_id">>
    /\ ret.val.missing_fields = <<"description", "published_date">>
    /\ ~ret.val.valid

(* C4: the outcome a batch synthesizes for a file whose verification       *)
(* raised has cve_id and severity "ERROR", empty checksums, no missing     *)
(* fields, valid = false and the error message; the outcome of a file      *)
(* that verified carries the record's own values and real checksums.       *)
C4_ErrorOutcomeSentinels ==
    IsBatchReturn =>
        \A i \in 1..Len(ret.val) :
            LET o == ret.val[i]
                c == files[o.manifest_file]
            IN  IF LoadsAsRecord(c)
                THEN /\ "error" \notin DOMAIN o
                     /\ o.cve_id = (IF "cve_id" \in Range(c.keys) THEN c.val["cve_id"] ELSE "UNKNOWN")
                     /\ o.severity = (IF "severity" \in Range(c.keys) THEN c.val["severity"] ELSE "UNKNOWN")
                     /\ o.file_checksum # EmptyStr
                     /\ o.content_checksum # EmptyStr
                ELSE /\ o.cve_id = "ERROR"
                     /\ o.severity = "ERROR"
                     /\ o.file_checksum = EmptyStr
                     /\ o.content_checksum = EmptyStr
                     /\ o.missing_fields = <<>>
                     /\ o.valid = FALSE
                     /\ "error" \in DOMAIN o
                     /\ o.error = (IF c.kind = "invalid" THEN "Expecting value"
                                   ELSE "'list' object has no attribute 'get'")

C4_Witness ==
    /\ IsBatchReturn
    /\ \E i, j \in 1..Len(ret.val) :
          /\ ret.val[i].cve_id = "ERROR" /\ "error" \in DOMAIN ret.val[i]
          /\ ret.val[j].cve_id = "CVE-2024-0001" /\ ret.val[j].file_checksum # EmptyStr

CoreRenderers == {"generate_csv_report", "generate_markdown_report", "generate_html_report"}

(* the last call was a renderer that writes a document with detail rows,   *)
(* and it returned                                                         *)
WroteDocument ==
    /\ ret.op \in {"generate_markdown_report", "generate_html_report"}
    /\ ret.exc = "None"

ReturnedDashboard == ret.op = "generate_dashboard_html" /\ ret.exc = "None"

(* the document the last renderer produced, and the list it was given *)
LastDocument == IF ReturnedDashboard THEN ret.val ELSE disk[FileKey(ret.val)]

ExpectedRate(rs, scale) ==
    IF rs = <<>> THEN 0 ELSE RoundPercent(ValidCount(rs), Len(rs), scale)

(* C5: a full run over a batch that holds an error outcome, at any         *)
(* position, completes without raising and its reports carry the total,    *)
(* valid and invalid counts of the batch.                                  *)
C5_RunCompletesWithErrorOutcomes ==
    (/\ ret.op = "run_full_verification"
     /\ \E i \in 1..Len(ret.arg) : "error" \in DOMAIN ret.arg[i])
    =>  /\ ret.exc = "None"
        /\ \A k \in 1..3 : FileKey(ret.val[k]) \in DOMAIN disk
        /\ \A k \in 2..3 :
              LET doc == disk[FileKey(ret.val[k])] IN
              /\ doc.total = Len(ret.arg)
              /\ doc.valid_count = ValidCount(ret.arg)
              /\ doc.invalid_count = Len(ret.arg) - ValidCount(ret.arg)

(* C6: every renderer reports valid_count / total_count * 100 for the      *)
(* list it is given, and 0 for the empty list, on which none of them fails.*)
C6_SuccessRateAgrees ==
    /\ ret.op \in {"generate_markdown_report", "generate_html_report"} =>
          /\ ret.exc = "None"
          /\ disk[FileKey(ret.val)].success_rate = ExpectedRate(ret.arg, 10)
    /\ ReturnedDashboard => ret.val.success_rate = ExpectedRate(ret.arg, 10)
    /\ ret.op = "analyze_severity_distribution" =>
          /\ ret.exc = "None"
          /\ "valid_percentage" \in DOMAIN ret.val
          /\ ret.val.valid_percentage = ExpectedRate(ret.arg, 100)

(* C7: when a core renderer returns a path, for any outcome list, the      *)
(* artifact is on disk at that path with a sidecar beside it that records  *)
(* the SHA-256 digest of the artifact as it is on disk.                    *)
C7_ReturnedPathHasArtifactAndSidecar ==
    (ret.op \in CoreRenderers /\ ret.exc = "None") =>
        LET key == FileKey(ret.val) IN
        /\ key \in DOMAIN disk
        /\ \E k \in DOMAIN disk :
              /\ k.parent = key.parent
              /\ k.name[Len(k.name)] = ".sha256"
              /\ disk[k][1] = Hexdigest("sha256", disk[key])

(* C8: for every render call and output path, the sidecar is named         *)
(* <artifact filename>.sha256 and holds the hex digest, two spaces, the    *)
(* artifact's filename and a newline.                                      *)
C8_SidecarNamedAfterArtifact ==
    (ret.op \in CoreRenderers /\ ret.exc = "None" /\ FileKey(ret.val) \in DOMAIN disk) =>
        LET sidecar == [parent |-> ret.val.parent, name |-> PathName(ret.val) \o <<".sha256">>] IN
        /\ sidecar \in DOMAIN disk
        /\ disk[sidecar] = <<Hexdigest("sha256", disk[FileKey(ret.val)]), "  ",
                             PathName(ret.val), "\n">>

(* C9: the row a renderer emits for an outcome that carries an error       *)
(* message shows that message in its Issues cell, never "None".            *)
C9_ErrorReasonInIssues ==
    (WroteDocument \/ ReturnedDashboard) =>
        \A i \in 1..Len(LastDocument.rows) :
            "error" \in DOMAIN ret.arg[i] =>
                /\ LastDocument.rows[i].issues # <<"None">>
                /\ ret.arg[i].error \in Range(LastDocument.rows[i].issues)

(* C10: every renderer emits at most 50 detail rows, those of the first 50 *)
(* outcomes, and computes its counts over the full list.                   *)
C10_DetailRowsCapped ==
    (WroteDocument \/ ReturnedDashboard) =>
        /\ Len(LastDocument.rows) = Min(Len(ret.arg), DashboardRowLimit)
        /\ \A i \in 1..Len(LastDocument.rows) : LastDocument.rows[i].cve_id = ret.arg[i].cve_id
        /\ LastDocument.total = Len(ret.arg)
        /\ LastDocument.valid_count = ValidCount(ret.arg)

(* the outcome list a batch over the directory produces *)
BatchOf(fs) ==
    batch_verify_manifests(fs, "data/cve", [i \in 1..Len(fs) |-> i], 0, <<>>).results

InvalidCount(rs) == Len(SelectSeq(rs, LAMBDA r : ~r.valid))

ProcessedDashboard == ret.op = "process_and_generate_dashboard"

(* C11: the dashboard process_and_generate_dashboard writes for a          *)
(* directory, and the severity analysis of the batch list of that          *)
(* directory, show the numbers of true and of false valid flags of the     *)
(* outcome list batch_verify_manifests produces for it, and count every    *)
(* file of the directory.                                                  *)
C11_ConsumersShowBatchCounts ==
    /\ ProcessedDashboard =>
          /\ ret.exc = "None"
          /\ LET doc == disk[FileKey(ret.val.dashboard_path)] IN
                /\ doc.total = Len(BatchOf(files))
                /\ doc.valid_count = ValidCount(BatchOf(files))
                /\ doc.total - doc.valid_count = InvalidCount(BatchOf(files))
    /\ (ret.op = "analyze_severity_distribution" /\ ret.arg # <<>>) =>
          /\ ret.val.total_manifests = Len(BatchOf(files))
          /\ ret.val.valid = ValidCount(BatchOf(files))
          /\ ret.val.invalid = InvalidCount(BatchOf(files))

CalledChecksum == ret.op = "generate_checksum"

CalledFileChecksum == ret.op = "generate_file_checksum"

Unsupported(algorithm) == algorithm \notin Range(SUPPORTED_HASH_ALGORITHMS)

(* C12: called with an algorithm name outside {sha256, md5, sha1},         *)
(* generate_checksum on a string and generate_file_checksum on a file that *)
(* exists both raise the unsupported-algorithm error and return no digest. *)
C12_UnsupportedAlgorithmRejected ==
    /\ (CalledChecksum /\ Unsupported(ret.algorithm)) =>
          /\ ret.exc = "ValueError"
          /\ ret.msg = "Unsupported hash algorithm"
    /\ (CalledFileChecksum /\ ret.arg \in DOMAIN files /\ Unsupported(ret.algorithm)) =>
          /\ ret.exc = "ValueError"
          /\ ret.msg = "Unsupported hash algorithm"

(* C13: a call of generate_file_checksum or verify_cve_manifest on a path  *)
(* that does not exist raises the file-not-found error, returns nothing,   *)
(* and leaves the result list, the caller's list and every file as they    *)
(* were.                                                                   *)
C13_MissingPathFailsAlone ==
    [][ (/\ now' # now
         /\ ret'.op \in {"generate_file_checksum", "verify_cve_manifest"}
         /\ ret'.arg \notin DOMAIN files)
        =>  /\ ret'.exc = "FileNotFoundError"
            /\ "val" \notin DOMAIN ret'
            /\ UNCHANGED <<files, verification_results, results, disk>> ]_vars

C13_Witness ==
    /\ ret.op = "verify_cve_manifest"
    /\ ret.arg \notin DOMAIN files
    /\ ret.exc = "FileNotFoundError"
    /\ Len(verification_results) = 1

HasUnreadable(fs) == \E f \in DOMAIN fs : fs[f].kind = "unreadable"

(* C14: a batch over a directory that holds a file which cannot be read    *)
(* raises: the failure leaves batch_verify_manifests, no outcome is made   *)
(* for that file and no later file is verified.                            *)
C14_UnreadableFileAbortsBatch ==
    (IsBatchReturn /\ HasUnreadable(files)) =>
        /\ ret.exc # "None"
        /\ \A i \in 1..Len(ret.val) : files[ret.val[i].manifest_file].kind # "unreadable"

(* the outcomes of files that verified: those returned by the last call    *)
(* and those on the verifier's list                                        *)
NormalOutcomes ==
    {o \in ReturnedOutcomes \cup Range(verification_results) : "error" \notin DOMAIN o}

(* C15: two outcomes whose manifests hold the same fields with the same    *)
(* values carry the same content_checksum, whatever the order in which     *)
(* each file wrote its keys.                                               *)
C15_ContentChecksumIgnoresKeyOrder ==
    \A o1, o2 \in NormalOutcomes :
        files[o1.manifest_file].val = files[o2.manifest_file].val
            => o1.content_checksum = o2.content_checksum

C15_Witness ==
    /\ IsBatchReturn
    /\ \E o1, o2 \in NormalOutcomes :
          /\ files[o1.manifest_file].keys = required_fields
          /\ files[o2.manifest_file].keys = Reverse(required_fields)
          /\ o1.content_checksum = o2.content_checksum
          /\ o1.file_checksum # o2.file_checksum

(* C16: the digest generate_file_checksum returned for a file is the       *)
(* digest, under the same algorithm, of that file hashed again and of      *)
(* every file of another name that holds the same bytes; the               *)
(* file_checksum of two outcomes whose files hold the same bytes is the    *)
(* same.                                                                   *)
C16_FileChecksumOfBytesOnly ==
    /\ (CalledFileChecksum /\ ret.exc = "None") =>
          \A q \in DOMAIN files :
              files[q] = files[ret.arg] =>
                  generate_file_checksum(files, q, ret.algorithm) = Ok(ret.val)
    /\ \A o1, o2 \in NormalOutcomes :
          files[o1.manifest_file] = files[o2.manifest_file]
              => o1.file_checksum = o2.file_checksum

C16_Witness ==
    /\ CalledFileChecksum
    /\ ret.exc = "None"
    /\ \E q \in DOMAIN files : q # ret.arg /\ files[q] = files[ret.arg]

(* C17: a call of batch_verify_manifests on a directory that does not      *)
(* exist returns the empty list without raising, and leaves the            *)
(* verifier's result list, the reports on disk and the manifest files as   *)
(* they were.                                                              *)
C17_AbsentDirectoryIsEmptyBatch ==
    [][ (/\ now' # now
         /\ ret'.op = "batch_verify_manifests"
         /\ ret'.arg # "data/cve")
        =>  /\ ret'.exc = "None"
            /\ ret'.val = <<>>
            /\ UNCHANGED <<verification_results, disk, files>> ]_vars

C17_Witness ==
    /\ ret.op = "batch_verify_manifests"
    /\ ret.arg = "data/absent"
    /\ ret.val = <<>>
    /\ files # <<>>
    /\ verification_results # <<>>
    /\ disk # <<>>

(* C18: main ends with status 0 when run_full_verification returns, and    *)
(* with a status other than 0 when an exception leaves it; over a          *)
(* directory without manifests the run returns, no report is written and   *)
(* the status is 0.                                                        *)
C18_ExitStatus ==
    [][ (now' # now /\ ret'.op = "main")
        =>  /\ (ret'.run.exc = "None") => (ret'.exit_status = 0)
            /\ (ret'.run.exc # "None") => (ret'.exit_status # 0)
            /\ (files = <<>>) =>
                  /\ ret'.run = Ok(<<"None", "None", "None">>)
                  /\ ret'.exit_status = 0
                  /\ disk' = disk ]_vars

C18_Witness ==
    /\ ret.op = "main"
    /\ ret.run.exc = "ValueError"
    /\ ret.exit_status = 1

(* main returned 0 after a run that wrote reports, and after a run over an *)
(* empty directory                                                         *)
C18_WitnessCompleted ==
    /\ ret.op = "main"
    /\ ret.exit_status = 0
    /\ (files = <<>> \/ (ret.run.exc = "None" /\ disk # <<>>))

(* every outcome the verifier holds or has handed out *)
AllOutcomes == ReturnedOutcomes \cup Range(verification_results) \cup Range(results)

(* C19: every outcome, normal or error, carries the lineage constant of    *)
(* the core verifier, also when its manifest has a lineage_id field of its *)
(* own; the documents the renderers write, the dashboard and its summary   *)
(* and the severity analysis carry that same value, which is the constant  *)
(* the dialect processors declare.                                         *)
C19_LineageIsTheConstant ==
    /\ HTMLDialectProcessor_LINEAGE_ID = LINEAGE_ID
    /\ MarkdownDialectProcessor_LINEAGE_ID = LINEAGE_ID
    /\ \A o \in AllOutcomes : o.lineage_id = LINEAGE_ID
    /\ (WroteDocument \/ ReturnedDashboard) => LastDocument.lineage = LINEAGE_ID
    /\ (ProcessedDashboard /\ ret.exc = "None") =>
          /\ disk[FileKey(ret.val.dashboard_path)].lineage = LINEAGE_ID
          /\ disk[FileKey(ret.val.summary_path)].lineage_id = LINEAGE_ID
    /\ (ret.op = "analyze_severity_distribution" /\ "lineage_id" \in DOMAIN ret.val) =>
          ret.val.lineage_id = LINEAGE_ID

C19_Witness ==
    /\ IsBatchReturn
    /\ \E o \in ReturnedOutcomes :
          /\ "lineage_id" \in Range(files[o.manifest_file].keys)
          /\ files[o.manifest_file].val["lineage_id"] # LINEAGE_ID
          /\ o.lineage_id = LINEAGE_ID

RanFullVerification(r) ==
    r.op = "run_full_verification" /\ r.exc = "None" /\ r.arg # <<>>

Enumeration(rs) == [i \in 1..Len(rs) |-> rs[i].manifest_file]

(* an artifact with the timestamp field of every outcome row blanked *)
WithoutOutcomeTimestamps(doc) ==
    IF doc.fmt = "csv"
    THEN [doc EXCEPT !.rows =
            [i \in 1..Len(doc.rows) |->
                [j \in 1..Len(doc.header) |->
                    IF doc.header[j] = "timestamp" THEN "-" ELSE doc.rows[i][j]]]]
    ELSE [doc EXCEPT !.rows = [i \in 1..Len(doc.rows) |-> [doc.rows[i] EXCEPT !.timestamp = "-"]]]

(* C20: when run_full_verification completes twice in a row over the       *)
(* unchanged directory, listed in the same order, each artifact of the     *)
(* second run equals that of the first but for the timestamp field of the  *)
(* outcomes, and the sidecars of the two runs record the same digest.      *)
C20_RerunReproducesArtifacts ==
    [][ (/\ now' # now
         /\ RanFullVerification(ret)
         /\ RanFullVerification(ret')
         /\ Enumeration(ret'.arg) = Enumeration(ret.arg))
        => \A k \in 1..3 :
              /\ WithoutOutcomeTimestamps(disk'[FileKey(ret'.val[k])])
                     = WithoutOutcomeTimestamps(disk'[FileKey(ret.val[k])])
              /\ disk'[ChecksumFileKey(ret'.val[k])][1] = disk'[ChecksumFileKey(ret.val[k])][1] ]_vars

(* C21: a required field whose key is in the record is not in              *)
(* missing_fields and does not make the outcome invalid, also when its     *)
(* value is the empty string or null; a required field whose key is not in *)
(* the record is in missing_fields.                                        *)
C21_BlankValueIsNotMissing ==
    \A o \in NormalOutcomes :
        LET c == files[o.manifest_file] IN
        /\ \A i \in 1..Len(required_fields) :
              (required_fields[i] \in Range(o.missing_fields))
                  <=> (required_fields[i] \notin Range(c.keys))
        /\ (Range(required_fields) \subseteq Range(c.keys)) => o.valid

C21_Witness ==
    /\ ret.op = "verify_cve_manifest"
    /\ ret.exc = "None"
    /\ files[ret.arg].keys = required_fields
    /\ files[ret.arg].val["severity"] = ""
    /\ ret.val.missing_fields = <<>>
    /\ ret.val.valid

SeverityVocabulary == {"CRITICAL", "HIGH", "MEDIUM", "LOW"}

(* C22: the severity of an outcome of a file that verified is CRITICAL,    *)
(* HIGH, MEDIUM, LOW or UNKNOWN, and it is UNKNOWN when the record has no  *)
(* severity key or holds a value outside those four.                       *)
C22_SeverityWithinVocabulary ==
    \A o \in NormalOutcomes :
        LET c == files[o.manifest_file] IN
        /\ o.severity \in SeverityVocabulary \cup {"UNKNOWN"}
        /\ ("severity" \notin Range(c.keys)) => (o.severity = "UNKNOWN")
        /\ ("severity" \in Range(c.keys) /\ c.val["severity"] \notin SeverityVocabulary)
              => (o.severity = "UNKNOWN")

(* the outcome of the file when it is the only one of its directory *)
VerifiedAlone(c, t) == verify_cve_manifest([i \in 1..1 |-> c], 1, t).val

(* C23: in a batch, the outcome of a file that holds a record has the      *)
(* cve_id, severity, checksums, missing_fields and valid flag it has when  *)
(* the file is verified alone, whatever the other files hold and wherever  *)
(* they are listed; it is never an error outcome, and the batch returns no *)
(* outcome besides one per file.                                           *)
C23_OutcomeIndependentOfOtherFiles ==
    IsBatchReturn =>
        /\ Len(ret.val) = Len(files)
        /\ \A i \in 1..Len(ret.val) :
              LET o == ret.val[i]
                  c == files[o.manifest_file]
              IN  LoadsAsRecord(c) =>
                      /\ "error" \notin DOMAIN o
                      /\ o.cve_id = VerifiedAlone(c, o.timestamp).cve_id
                      /\ o.severity = VerifiedAlone(c, o.timestamp).severity
                      /\ o.file_checksum = VerifiedAlone(c, o.timestamp).file_checksum
                      /\ o.content_checksum = VerifiedAlone(c, o.timestamp).content_checksum
                      /\ o.missing_fields = VerifiedAlone(c, o.timestamp).missing_fields
                      /\ o.valid = VerifiedAlone(c, o.timestamp).valid

C23_Witness ==
    /\ IsBatchReturn
    /\ Len(ret.val) = 2
    /\ "error" \notin DOMAIN ret.val[1]
    /\ "error" \notin DOMAIN ret.val[2]
    /\ ret.val[1].cve_id = ret.val[2].cve_id
    /\ ret.val[1].valid # ret.val[2].valid

(* a record listed after a file that is not JSON, and one listed before it *)
C23_WitnessMalformed ==
    /\ IsBatchReturn
    /\ Len(ret.val) = 2
    /\ \E i, j \in 1..2 : "error" \in DOMAIN ret.val[i] /\ ret.val[j].valid

(* C24: the list a batch returns is in discovery order: its i-th outcome   *)
(* is the outcome of the i-th file the directory listing gave, an error    *)
(* outcome standing at the place of its file.                              *)
C24_BatchKeepsDiscoveryOrder ==
    IsBatchReturn =>
        /\ Len(ret.val) = Len(ret.order)
        /\ \A i \in 1..Len(ret.order) : ret.val[i].manifest_file = ret.order[i]

C24_Witness ==
    /\ IsBatchReturn
    /\ ret.order = <<2, 1>>
    /\ "error" \in DOMAIN ret.val[1]
    /\ "error" \notin DOMAIN ret.val[2]
    /\ ret.val[1].manifest_file = 2
    /\ ret.val[2].manifest_file = 1

(* the last call was a render that failed between its two writes *)
RenderInterrupted == ret.op \in CoreRenderers /\ ret.exc = "OSError"

(* the disk holds the artifact at path and a sidecar with its digest *)
HasMatchingSidecar(dk, path) ==
    /\ FileKey(path) \in DOMAIN dk
    /\ \E k \in DOMAIN dk :
          /\ k.parent = path.parent
          /\ k.name[Len(k.name)] = ".sha256"
          /\ dk[k] = SidecarLine(FileDigest(dk, FileKey(path)), path)

(* C25: a render call that ends between its two writes has written the     *)
(* artifact and nothing else (no sidecar is written before the artifact),  *)
(* and a render call to the same output path that returns after it leaves  *)
(* the artifact and a sidecar holding the artifact's digest.               *)
C25_ArtifactFirstAndRerunRepairs ==
    [][/\ (ret'.op \in CoreRenderers /\ ret'.exc = "OSError") =>
              /\ FileKey(ret'.path) \in DOMAIN disk'
              /\ \A k \in DOMAIN disk' :
                    k # FileKey(ret'.path) => (k \in DOMAIN disk /\ disk'[k] = disk[k])
       /\ (/\ RenderInterrupted
           /\ ret'.op \in CoreRenderers
           /\ ret'.exc = "None"
           /\ ret'.val = ret.path) => HasMatchingSidecar(disk', ret'.val)]_vars

ReadOnlyCalls ==
    CoreRenderers \cup {"analyze_severity_distribution", "calculate_checksum_integrity"}

(* C26: a call of generate_csv_report, generate_markdown_report,           *)
(* generate_html_report or of an analysis function of the Python dialect   *)
(* is given the outcome list and leaves it, and the verifier's own result  *)
(* list, with the same outcomes, field values and order as before.         *)
C26_RenderingLeavesListsAlone ==
    [][ret'.op \in ReadOnlyCalls =>
          /\ ret'.arg = results
          /\ results' = results
          /\ verification_results' = verification_results]_vars

C26_Witness ==
    /\ ret.op = "generate_csv_report"
    /\ ret.exc = "None"
    /\ ret.arg = results
    /\ Len(results) = 2
    /\ FileKey(ret.val) \in DOMAIN disk

C26_WitnessAnalysis ==
    /\ ret.op = "calculate_checksum_integrity"
    /\ ret.exc = "None"
    /\ Len(results) = 2
    /\ ret.val.files_with_checksums = 1

(* a description as the claim has it displayed *)
Displayed(description) ==
    IF Len(description) > 100
    THEN SubSeq(description, 1, 100) \o <<".", ".", ".">>
    ELSE description

(* the descriptions of the loaded records a table has rows for *)
DescriptionsOf(cves) ==
    [i \in 1..Len(cves) |-> Get(cves[i], "description", NoDescription)]

(* C27: in the vulnerability table of the HTML dashboard and in the        *)
(* recent-vulnerabilities table of the Markdown documentation, a           *)
(* description longer than 100 characters is shown as its first 100        *)
(* characters followed by "...", and any other description unchanged.      *)
C27_LongDescriptionsAreCut ==
    /\ (ret.op = "generate_dashboard_html" /\ ret.exc = "None") =>
          LET shown == DescriptionsOf(FirstN(LoadCveData(files), 50)) IN
          /\ Len(ret.val.cve_rows) = Len(shown)
          /\ \A i \in 1..Len(shown) : ret.val.cve_rows[i].description = Displayed(shown[i])
    /\ (ret.op = "generate_security_documentation" /\ ret.exc = "None") =>
          LET shown == DescriptionsOf(FirstN(SelectSeq(ret.arg, IsRecent), 10)) IN
          /\ Len(ret.val.recent_rows) = Len(shown)
          /\ \A i \in 1..Len(shown) : ret.val.recent_rows[i].description = Displayed(shown[i])

C27_Witness ==
    /\ ret.op = "generate_security_documentation"
    /\ ret.exc = "None"
    /\ Len(ret.val.recent_rows) = 2
    /\ \A i \in 1..2 : "description" \in DOMAIN ret.arg[i].val
    /\ Len(ret.arg[1].val["description"]) = 101
    /\ Len(ret.val.recent_rows[1].description) = 103
    /\ Len(ret.arg[2].val["description"]) = 100
    /\ ret.val.recent_rows[2].description = ret.arg[2].val["description"]

C27_WitnessDashboard ==
    /\ ret.op = "generate_dashboard_html"
    /\ ret.exc = "None"
    /\ Len(ret.val.cve_rows) = 2
    /\ \A i \in 1..2 : "description" \in DOMAIN files[i].val
    /\ Len(files[1].val["description"]) = 101
    /\ Len(ret.val.cve_rows[1].description) = 103
    /\ Len(files[2].val["description"]) = 100
    /\ ret.val.cve_rows[2].description = files[2].val["description"]

(* C28: a verify_cve_manifest call that fails (the file is missing, is not *)
(* JSON, or holds a value that is not an object) raises to its caller,     *)
(* returns no outcome and leaves verification_results as it was; a call    *)
(* that succeeds appends the outcome it returns, and nothing else.         *)
C28_FailedVerifyLeavesListAlone ==
    [][ret'.op = "verify_cve_manifest" =>
          IF ret'.exc = "None"
          THEN verification_results' = Append(verification_results, ret'.val)
          ELSE /\ "val" \notin DOMAIN ret'
               /\ ret'.exc \in {"FileNotFoundError", "JSONDecodeError", "AttributeError"}
               /\ verification_results' = verification_results]_vars

C28_Witness ==
    /\ ret.op = "verify_cve_manifest"
    /\ ret.exc = "AttributeError"
    /\ files[ret.arg].kind = "array"
    /\ Len(verification_results) = 1
    /\ verification_results[1].manifest_file # ret.arg

(* the outcomes of a list that are not error outcomes, in its order *)
Succeeded(rs) == SelectSeq(rs, LAMBDA r : "error" \notin DOMAIN r)

(* what a call adds to verification_results: the outcome of a verify call  *)
(* that returned, the outcomes of the files a batch verified, else nothing *)
AppendedBy(r) ==
    IF r.op = "verify_cve_manifest" /\ r.exc = "None" THEN <<r.val>>
    ELSE IF r.op = "batch_verify_manifests" THEN Succeeded(r.val)
    ELSE <<>>

(* verification_results grows by what each call verified, in call order,   *)
(* and holds no error outcome                                              *)
ListHoldsSuccessesInCallOrder ==
    /\ verification_results' = verification_results \o AppendedBy(ret')
    /\ Succeeded(verification_results') = verification_results'

BatchWithFailures(r) ==
    /\ r.op = "batch_verify_manifests"
    /\ Succeeded(r.val) # r.val

(* C29 as stated: verification_results holds, in call order, exactly the   *)
(* outcomes of the verifications that succeeded since construction, never  *)
(* an error outcome, so that after a batch with failures it is shorter     *)
(* than the list the batch returned.                                       *)
C29_ShorterThanReturnedList ==
    [][/\ ListHoldsSuccessesInCallOrder
       /\ BatchWithFailures(ret') => Len(verification_results') < Len(ret'.val)]_vars

(* C29, amended: verification_results holds, in call order, exactly the    *)
(* outcomes of the verifications that succeeded since construction, never  *)
(* an error outcome, so that a batch with failures adds fewer outcomes to  *)
(* it than the batch returns.                                              *)
C29_GrowsByLessThanReturned ==
    [][/\ ListHoldsSuccessesInCallOrder
       /\ BatchWithFailures(ret') =>
              Len(verification_results') - Len(verification_results) < Len(ret'.val)]_vars

C29_Witness ==
    /\ IsBatchReturn
    /\ Len(ret.val) = 2
    /\ "error" \in DOMAIN ret.val[1]
    /\ "error" \notin DOMAIN ret.val[2]
    /\ Len(verification_results) = 2
    /\ verification_results[1].timestamp < verification_results[2].timestamp
    /\ verification_results[2] = ret.val[2]

(* every file of the directories dirs is on dk2 as it was on dk1 *)
Untouched(dk1, dk2, dirs) ==
    \A k \in DOMAIN dk2 : k.parent \in dirs => (k \in DOMAIN dk1 /\ dk2[k] = dk1[k])

ReportDirs == {"reports/csv", "reports/md", "reports/html"}

(* C30: run_full_verification verifies the directory once (the verifier's  *)
(* list grows by the verified outcomes of the one list it goes on to       *)
(* render); on an empty list it writes nothing and returns (None, None,    *)
(* None); otherwise the CSV, Markdown and HTML reports it returns are all  *)
(* of that list, and when the CSV renderer raises, the exception ends the  *)
(* run with no Markdown or HTML report written.                            *)
C30_FullRunRendersOneListInOrder ==
    [][ret'.op = "run_full_verification" =>
          LET rs == ret'.arg IN
          /\ verification_results' = verification_results \o Succeeded(rs)
          /\ Len(rs) = Len(files)
          /\ rs = <<>> =>
                /\ ret'.exc = "None"
                /\ ret'.val = <<"None", "None", "None">>
                /\ disk' = disk
          /\ (rs # <<>> /\ ret'.exc = "None") =>
                /\ ret'.val = <<DefaultPath("reports/csv", ".csv", now),
                                DefaultPath("reports/md", ".md", now),
                                DefaultPath("reports/html", ".html", now)>>
                /\ \A k \in 1..3 : HasMatchingSidecar(disk', ret'.val[k])
                /\ Len(disk'[FileKey(ret'.val[1])].rows) = Len(rs)
                /\ disk'[FileKey(ret'.val[1])].header = Keys(rs[1])
                /\ disk'[FileKey(ret'.val[2])].rows = ReportRows(rs)
                /\ disk'[FileKey(ret'.val[3])].rows = ReportRows(rs)
                /\ Untouched(disk, disk', {"out"})
          /\ ret'.exc # "None" =>
                /\ FileKey(DefaultPath("reports/csv", ".csv", now)) \in DOMAIN disk'
                /\ Untouched(disk, disk', {"reports/md", "reports/html", "out"})]_vars

C30_Witness ==
    /\ ret.op = "run_full_verification"
    /\ ret.exc = "ValueError"
    /\ Len(ret.arg) = 2
    /\ \E k \in DOMAIN disk : k.parent = "reports/csv"
    /\ \A k \in DOMAIN disk : k.parent \notin {"reports/md", "reports/html"}

C30_WitnessCompleted ==
    /\ ret.op = "run_full_verification"
    /\ ret.exc = "None"
    /\ Len(ret.arg) = 2
    /\ \A k \in 1..3 : FileKey(ret.val[k]) \in DOMAIN disk

C30_WitnessEmpty ==
    /\ ret.op = "run_full_verification"
    /\ ret.arg = <<>>
    /\ ret.val = <<"None", "None", "None">>
    /\ disk = <<>>

====
